---- MODULE Spec2Model ----
(***************************************************************************)
(* Version Manager of Unified Data Studio v2 (scripts/version_manager.py). *)
(*                                                                         *)
(* Text is modelled character by character: a string is a sequence of      *)
(* one-character strings, so that strip(), the regular expressions, int()  *)
(* and the f-string formatting are computed as Python computes them.       *)
(***************************************************************************)
EXTENDS Integers, Sequences, FiniteSets, TLC

(* ----------------------------- bounds ---------------------------------- *)

\* Number of version bumps in one behaviour (Python integers are unbounded).
MaxBumps == 2

\* Longest VERSION content enumerated exhaustively by SpecRead.
MaxLen == 6

\* Most chunks concatenated into a target file's content by SpecSub.
MaxChunks == 3

(* ----------------------------- characters ------------------------------ *)

DQ == "\""
SQ == "'"
NL == "\n"

DigitSeq == <<"0", "1", "2", "3", "4", "5", "6", "7", "8", "9">>
Digits == {DigitSeq[k] : k \in 1..10}

\* The whitespace str.strip() removes and \s matches.
WS == {" ", "\n", "\t"}

Min(S) == CHOOSE x \in S : \A y \in S : x <= y

kwVersion == <<"v", "e", "r", "s", "i", "o", "n">>
kwReturn == <<"r", "e", "t", "u", "r", "n">>

(* ----------------------------- str helpers ----------------------------- *)

RECURSIVE LStrip(_)
LStrip(s) == IF s # <<>> /\ Head(s) \in WS THEN LStrip(Tail(s)) ELSE s

RECURSIVE RStrip(_)
RStrip(s) ==
  IF s # <<>> /\ s[Len(s)] \in WS THEN RStrip(SubSeq(s, 1, Len(s) - 1)) ELSE s

\* str.strip()
Strip(s) == RStrip(LStrip(s))

\* First index >= i whose character is outside C (Len(s)+1 if none): C*
SkipSet(s, i, C) ==
  LET stops == {j \in i..Len(s) : s[j] \notin C}
  IN  IF stops = {} THEN Len(s) + 1 ELSE Min(stops)

\* First index >= i whose character is c (Len(s)+1 if none): [^c]*
SkipNot(s, i, c) ==
  LET stops == {j \in i..Len(s) : s[j] = c}
  IN  IF stops = {} THEN Len(s) + 1 ELSE Min(stops)

\* The literal lit stands at index i of s.
Lit(s, i, lit) ==
  /\ i + Len(lit) - 1 <= Len(s)
  /\ SubSeq(s, i, i + Len(lit) - 1) = lit

\* str.split('.')
RECURSIVE Split(_)
Split(s) ==
  LET dots == {i \in 1..Len(s) : s[i] = "."}
  IN  IF dots = {} THEN <<s>>
      ELSE <<SubSeq(s, 1, Min(dots) - 1)>> \o Split(SubSeq(s, Min(dots) + 1, Len(s)))

DigitVal(c) == (CHOOSE k \in 1..10 : DigitSeq[k] = c) - 1

\* int(ds) for a string of decimal digits
RECURSIVE ToInt(_)
ToInt(ds) ==
  IF ds = <<>> THEN 0
  ELSE ToInt(SubSeq(ds, 1, Len(ds) - 1)) * 10 + DigitVal(ds[Len(ds)])

\* f"{n}" for a non-negative integer
RECURSIVE ToStr(_)
ToStr(n) ==
  IF n < 10 THEN <<DigitSeq[n + 1]>>
  ELSE ToStr(n \div 10) \o <<DigitSeq[(n % 10) + 1]>>

(* ------------------- the canonical version: _read_version -------------- *)

\* `$`: the end of the string, or just before a final newline.
AtEnd(s, i) == i = Len(s) + 1 \/ (i = Len(s) /\ s[i] = NL)

\* re.match(r'^\d+\.\d+\.\d+$', s)
VersionMatch(s) ==
  LET a == SkipSet(s, 1, Digits)
      b == SkipSet(s, a + 1, Digits)
      c == SkipSet(s, b + 1, Digits)
  IN  /\ a > 1 /\ a <= Len(s) /\ s[a] = "."
      /\ b > a + 1 /\ b <= Len(s) /\ s[b] = "."
      /\ c > b + 1 /\ AtEnd(s, c)

(* ----------------------------- the project tree ------------------------ *)

VERSION == "VERSION"
CARGO == "backend/Cargo.toml"
PACKAGE == "frontend/package.json"
AUTOUPDATER == "frontend/src/services/AutoUpdater.ts"
BACKENDSERVICE == "frontend/src/services/BackendService.ts"
HEADER == "frontend/src/version.ts"

Files == {VERSION, CARGO, PACKAGE, AUTOUPDATER, BACKENDSERVICE, HEADER}

\* A path of the tree: absent, or a regular file with its text.
Absent == [exists |-> FALSE, text |-> <<>>]
File(t) == [exists |-> TRUE, text |-> t]

VARIABLES
  fs,      \* the project tree: path -> Absent or File(text)
  ro,      \* the paths that cannot be opened for writing (open(.., 'w') raises)
  fs0,     \* the tree as it was at the start
  mgr,     \* per tool instance: its VersionManager object, if constructed
  pc,      \* per tool instance: where its command-line run stands
  inv,     \* per tool instance: argv and the tree at the start of its last run
  exit,    \* per tool instance: exit status of its last run (-1: none yet)
  last,    \* per tool instance: the latest VersionManager call and its outcome
  nBumps,  \* bumps made or started so far
  build    \* the run of build_complete_package.py: position, log, exit status

vars == <<fs, ro, fs0, mgr, pc, inv, exit, last, nBumps, build>>

\* with open(path, 'w') as f: f.write(text)
Write(fsys, path, text) == [fsys EXCEPT ![path] = File(text)]

\* _read_version without the strip().
ReadVersionNoStrip(fsys) ==
  IF ~fsys[VERSION].exists
  THEN [raised |-> "FileNotFoundError", version |-> <<>>]
  ELSE LET version == fsys[VERSION].text
       IN  IF ~VersionMatch(version)
           THEN [raised |-> "ValueError", version |-> <<>>]
           ELSE [raised |-> "", version |-> version]

\* VersionManager._read_version
ReadVersion(fsys) ==
  IF ~fsys[VERSION].exists
  THEN [raised |-> "FileNotFoundError", version |-> <<>>]
  ELSE LET version == Strip(fsys[VERSION].text)
       IN  IF ~VersionMatch(version)
           THEN [raised |-> "ValueError", version |-> <<>>]
           ELSE [raised |-> "", version |-> version]

(* ----------------------------- bump_version ---------------------------- *)

BumpTypes == {"major", "minor", "patch"}

\* major, minor, patch = map(int, self.version.split('.'))
Triple(version) ==
  LET parts == Split(version)
  IN  <<ToInt(parts[1]), ToInt(parts[2]), ToInt(parts[3])>>

\* Bumped with the reset of the lower-order components forgotten.
BumpedNoReset(t, bump_type) ==
  CASE bump_type = "major" -> <<t[1] + 1, t[2], t[3]>>
    [] bump_type = "minor" -> <<t[1], t[2] + 1, t[3]>>
    [] bump_type = "patch" -> <<t[1], t[2], t[3] + 1>>

\* The if/elif chain of bump_version, for a valid bump_type.
Bumped(t, bump_type) ==
  CASE bump_type = "major" -> <<t[1] + 1, 0, 0>>
    [] bump_type = "minor" -> <<t[1], t[2] + 1, 0>>
    [] bump_type = "patch" -> <<t[1], t[2], t[3] + 1>>

\* f"{major}.{minor}.{patch}"
Format(t) == ToStr(t[1]) \o <<".">> \o ToStr(t[2]) \o <<".">> \o ToStr(t[3])

\* The version a bump starts from, read again from the VERSION file.
BumpBaseReread(fsys, version) == Strip(fsys[VERSION].text)

\* The version a bump starts from: self.version, as read at construction.
BumpBase(fsys, version) == version

\* bump_version without its final else: an unknown bump_type changes no
\* component and the version is written back as formatted.
BumpVersionNoElse(fsys, version, bump_type) ==
  LET t == Triple(BumpBase(fsys, version))
      new_version == Format(IF bump_type \in BumpTypes THEN Bumped(t, bump_type)
                            ELSE t)
  IN  IF VERSION \in ro
      THEN [fs |-> fsys, version |-> version, ret |-> <<>>, raised |-> "OSError"]
      ELSE [fs |-> Write(fsys, VERSION, new_version),
            version |-> new_version, ret |-> new_version, raised |-> ""]

\* VersionManager.bump_version: the new tree, the manager's version after the
\* call, the value returned and the exception raised out of it ("" if none).
BumpVersion(fsys, version, bump_type) ==
  IF bump_type \notin BumpTypes
  THEN [fs |-> fsys, version |-> version, ret |-> <<>>, raised |-> "ValueError"]
  ELSE LET new_version ==
             Format(Bumped(Triple(BumpBase(fsys, version)), bump_type))
       IN  IF VERSION \in ro
           THEN [fs |-> fsys, version |-> version, ret |-> <<>>,
                 raised |-> "OSError"]
           ELSE [fs |-> Write(fsys, VERSION, new_version),
                 version |-> new_version, ret |-> new_version, raised |-> ""]

(* ----------------------------- the patterns ---------------------------- *)

\* Each *Match(s, i) is the index just after the match of the pattern that
\* starts at index i of s, or 0 when the pattern does not match there.

\* The Cargo.toml pattern with its closing quote left out.
CargoMatchNoClose(s, i) ==
  LET p1 == i + Len(kwVersion)
      p2 == SkipSet(s, p1, WS)
      p3 == SkipSet(s, p2 + 1, WS)
      p4 == SkipNot(s, p3 + 1, DQ)
  IN  IF /\ (i = 1 \/ s[i - 1] = NL)
         /\ Lit(s, i, kwVersion)
         /\ p2 <= Len(s) /\ s[p2] = "="
         /\ p3 <= Len(s) /\ s[p3] = DQ
      THEN p4 ELSE 0

\* r'^version\s*=\s*"[^"]*"' with re.MULTILINE
CargoMatch(s, i) ==
  LET p1 == i + Len(kwVersion)
      p2 == SkipSet(s, p1, WS)
      p3 == SkipSet(s, p2 + 1, WS)
      p4 == SkipNot(s, p3 + 1, DQ)
  IN  IF /\ (i = 1 \/ s[i - 1] = NL)
         /\ Lit(s, i, kwVersion)
         /\ p2 <= Len(s) /\ s[p2] = "="
         /\ p3 <= Len(s) /\ s[p3] = DQ
         /\ p4 <= Len(s)
      THEN p4 + 1 ELSE 0

\* r'"version":\s*"[^"]*"'
PackageLit == <<DQ>> \o kwVersion \o <<DQ, ":">>

PackageMatch(s, i) ==
  LET p1 == i + Len(PackageLit)
      p2 == SkipSet(s, p1, WS)
      p3 == SkipNot(s, p2 + 1, DQ)
  IN  IF /\ Lit(s, i, PackageLit)
         /\ p2 <= Len(s) /\ s[p2] = DQ
         /\ p3 <= Len(s)
      THEN p3 + 1 ELSE 0

\* r"return '1\.0\.0'"
TsLit == kwReturn \o <<" ", SQ, "1", ".", "0", ".", "0", SQ>>

TsMatch(s, i) == IF Lit(s, i, TsLit) THEN i + Len(TsLit) ELSE 0

Kinds == {"cargo", "package", "ts"}

MatchEnd(kind, s, i) ==
  CASE kind = "cargo" -> CargoMatch(s, i)
    [] kind = "package" -> PackageMatch(s, i)
    [] kind = "ts" -> TsMatch(s, i)

\* The replacement text (new_line) of each target kind.
NewLine(kind, version) ==
  CASE kind = "cargo" -> kwVersion \o <<" ", "=", " ", DQ>> \o version \o <<DQ>>
    [] kind = "package" -> PackageLit \o <<" ", DQ>> \o version \o <<DQ>>
    [] kind = "ts" -> kwReturn \o <<" ", SQ>> \o version \o <<SQ>>

\* re.search(old_pattern, content)
Search(kind, s) == \E i \in 1..Len(s) : MatchEnd(kind, s, i) # 0

\* re.sub(old_pattern, new_line, content): every non-overlapping match,
\* leftmost first, replaced.
RECURSIVE SubFrom(_, _, _, _)
SubFrom(kind, s, i, repl) ==
  IF i > Len(s) THEN <<>>
  ELSE LET e == MatchEnd(kind, s, i)
       IN  IF e # 0 THEN repl \o SubFrom(kind, s, e, repl)
           ELSE <<s[i]>> \o SubFrom(kind, s, i + 1, repl)

Sub(kind, s, version) == SubFrom(kind, s, 1, NewLine(kind, version))

(* ----------------------------- propagation ---------------------------- *)

\* What a propagate operation hands back: the tree it leaves, the value it
\* returns, and the exception raised out of it ("" if none).
Returned(fsys, ok) == [fs |-> fsys, ok |-> ok, raised |-> ""]

\* The handler re-raising what it caught.
OnErrorRaise(fsys, exc) == [fs |-> fsys, ok |-> FALSE, raised |-> exc]

\* `except Exception as e: print(...); return False` around a target's
\* read, substitution and write.
OnError(fsys, exc) == Returned(fsys, FALSE)

\* UpdateFile with the file opened for writing before the search: a file
\* without the pattern is left truncated.
UpdateFileTruncating(kind, path, fsys, version) ==
  IF ~fsys[path].exists THEN Returned(fsys, FALSE)
  ELSE LET content == fsys[path].text
       IN  IF path \in ro THEN OnError(fsys, "OSError")
           ELSE IF Search(kind, content)
           THEN Returned(Write(fsys, path, Sub(kind, content, version)), TRUE)
           ELSE Returned(Write(fsys, path, <<>>), FALSE)

\* The body shared by update_backend_version and update_frontend_version.
UpdateFile(kind, path, fsys, version) ==
  IF ~fsys[path].exists THEN Returned(fsys, FALSE)
  ELSE LET content == fsys[path].text
       IN  IF Search(kind, content)
           THEN IF path \in ro THEN OnError(fsys, "OSError")
                ELSE Returned(Write(fsys, path, Sub(kind, content, version)), TRUE)
           ELSE Returned(fsys, FALSE)

\* VersionManager.update_backend_version
UpdateBackendVersion(fsys, version) == UpdateFile("cargo", CARGO, fsys, version)

\* VersionManager.update_frontend_version
UpdateFrontendVersion(fsys, version) ==
  UpdateFile("package", PACKAGE, fsys, version)

ts_files == <<AUTOUPDATER, BACKENDSERVICE>>

\* One round of the loop over ts_files; st is the tree and `updated` so far.
\* An exception is caught inside the round and the loop goes on.
TsRound(st, path, version) ==
  IF ~st.fs[path].exists THEN st
  ELSE LET content == st.fs[path].text
       IN  IF Search("ts", content)
           THEN IF path \in ro THEN st
                ELSE [fs |-> Write(st.fs, path, Sub("ts", content, version)),
                      updated |-> TRUE]
           ELSE st

\* VersionManager.update_typescript_version
UpdateTypescriptVersion(fsys, version) ==
  LET st0 == [fs |-> fsys, updated |-> FALSE]
      st1 == TsRound(st0, ts_files[1], version)
      st2 == TsRound(st1, ts_files[2], version)
  IN  Returned(st2.fs, st2.updated)

\* The text create_version_header writes; the fixed parts of the template
\* are kept as whole pieces of text.
HeaderContent(version) ==
  <<"// Auto-generated version file - DO NOT EDIT MANUALLY\n...\nexport const APP_VERSION = '">>
  \o version
  \o <<"';\nexport const APP_NAME = 'Unified Data Studio v2';\n...\n  version: '">>
  \o version
  \o <<"',\n  name: ...\n};\n\nexport default APP_VERSION;\n">>

\* VersionManager.create_version_header
CreateVersionHeader(fsys, version) ==
  IF HEADER \in ro THEN OnError(fsys, "OSError")
  ELSE Returned(Write(fsys, HEADER, HeaderContent(version)), TRUE)

\* The keys of the results dict of update_all_components, in the order the
\* dict display evaluates them.
Components == <<"backend", "frontend_package", "typescript", "version_header">>

Component(name, fsys, version) ==
  CASE name = "backend" -> UpdateBackendVersion(fsys, version)
    [] name = "frontend_package" -> UpdateFrontendVersion(fsys, version)
    [] name = "typescript" -> UpdateTypescriptVersion(fsys, version)
    [] name = "version_header" -> CreateVersionHeader(fsys, version)

\* The dict display evaluated from entry k on: an exception raised by one
\* entry ends the evaluation, and no dict is built.
RECURSIVE RunFrom(_, _, _)
RunFrom(k, st, version) ==
  IF k > Len(Components) \/ st.raised # "" THEN st
  ELSE LET name == Components[k]
           r == Component(name, st.fs, version)
       IN  RunFrom(k + 1,
                   [fs |-> r.fs,
                    log |-> Append(st.log, name),
                    results |-> IF r.raised = ""
                                THEN Append(st.results, [key |-> name, val |-> r.ok])
                                ELSE <<>>,
                    raised |-> r.raised],
                   version)

\* VersionManager.update_all_components: the tree it leaves, the targets it
\* attempted (log), the results it returns, the exception raised out of it.
UpdateAllComponents(fsys, version) ==
  RunFrom(1, [fs |-> fsys, log |-> <<>>, results |-> <<>>, raised |-> ""], version)

(* ----------------------------- tool instances -------------------------- *)

\* Instances of the tool (processes) working on the one project tree.
Procs == {1, 2}

NoMgr == [alive |-> FALSE, version |-> <<>>]
Mgr(version) == [alive |-> TRUE, version |-> version]

\* The record of a VersionManager call by instance p: the manager's version
\* and the tree before it, what it returned or raised, and whether it
\* repeats p's previous call (rep = 2) under the same version.
Called(p, op, arg, pre, r) ==
  [op |-> op, arg |-> arg, pre |-> pre, fsPre |-> fs,
   raised |-> r.raised, ret |-> r.ret, ok |-> r.ok,
   results |-> r.results, log |-> r.log,
   rep |-> IF /\ last[p].op = op /\ last[p].arg = arg
              /\ last[p].pre = pre /\ last[p].raised = ""
           THEN 2 ELSE 1]

NoCall(tree) ==
  [op |-> "none", arg |-> "", pre |-> <<>>, fsPre |-> tree, raised |-> "",
   ret |-> <<>>, ok |-> FALSE, results |-> <<>>, log |-> <<>>, rep |-> 1]

\* The outcome of each kind of call, in the one shape Called takes.
OfRead(r) ==
  [raised |-> r.raised, ret |-> r.version, ok |-> FALSE, results |-> <<>>,
   log |-> <<>>]
OfBump(r) ==
  [raised |-> r.raised, ret |-> r.ret, ok |-> FALSE, results |-> <<>>,
   log |-> <<>>]
OfUpdate(r) ==
  [raised |-> r.raised, ret |-> <<>>, ok |-> r.ok, results |-> <<>>,
   log |-> <<>>]
OfUpdateAll(r) ==
  [raised |-> r.raised, ret |-> <<>>, ok |-> FALSE, results |-> r.results,
   log |-> r.log]

(* ------------------- a Python caller of the class ---------------------- *)

\* manager = VersionManager(): __init__ reads VERSION; when it raises, no
\* object comes to be.
New(p) ==
  /\ pc[p] \in {"idle", "done"}
  /\ LET r == ReadVersion(fs)
     IN  /\ mgr' = [mgr EXCEPT ![p] = IF r.raised = "" THEN Mgr(r.version) ELSE NoMgr]
         /\ last' = [last EXCEPT ![p] = Called(p, "__init__", "", <<>>, OfRead(r))]
  /\ pc' = [pc EXCEPT ![p] = "idle"]
  /\ exit' = [exit EXCEPT ![p] = -1]
  /\ inv' = [inv EXCEPT ![p] = [argv |-> <<>>, fs |-> fs0]]
  /\ UNCHANGED <<fs, ro, fs0, build, nBumps>>

LibReady(p) == pc[p] = "idle" /\ mgr[p].alive

\* manager.bump_version(bump_type)
CallBump(p, bump_type) ==
  /\ LibReady(p)
  /\ nBumps < MaxBumps
  /\ LET r == BumpVersion(fs, mgr[p].version, bump_type)
     IN  /\ fs' = r.fs
         /\ mgr' = [mgr EXCEPT ![p] = Mgr(r.version)]
         /\ last' = [last EXCEPT ![p] =
                       Called(p, "bump_version", bump_type, mgr[p].version, OfBump(r))]
  /\ nBumps' = nBumps + 1
  /\ UNCHANGED <<ro, fs0, build, pc, inv, exit>>

\* One of the four propagate operations called on its own.
CallComponent(p, name) ==
  /\ LibReady(p)
  /\ LET r == Component(name, fs, mgr[p].version)
     IN  /\ fs' = r.fs
         /\ last' = [last EXCEPT ![p] =
                       Called(p, name, "", mgr[p].version, OfUpdate(r))]
  /\ UNCHANGED <<ro, fs0, build, mgr, pc, inv, exit, nBumps>>

CallUpdateBackend(p) == CallComponent(p, "backend")
CallUpdateFrontend(p) == CallComponent(p, "frontend_package")
CallUpdateTypescript(p) == CallComponent(p, "typescript")
CallCreateHeader(p) == CallComponent(p, "version_header")

\* manager.update_all_components()
CallUpdateAll(p) ==
  /\ LibReady(p)
  /\ LET r == UpdateAllComponents(fs, mgr[p].version)
     IN  /\ fs' = r.fs
         /\ last' = [last EXCEPT ![p] =
                       Called(p, "update_all_components", "", mgr[p].version,
                              OfUpdateAll(r))]
  /\ UNCHANGED <<ro, fs0, build, mgr, pc, inv, exit, nBumps>>

(* ------------------- the command line: main() -------------------------- *)

Prog == "version_manager.py"

Argv ==
  { <<Prog>>, <<Prog, "update-all">>, <<Prog, "bump">>,
    <<Prog, "bump", "major">>, <<Prog, "bump", "minor">>,
    <<Prog, "bump", "patch">>, <<Prog, "bump", "bogus">>,
    <<Prog, "info">>, <<Prog, "create-header">>, <<Prog, "frobnicate">> }

\* argv asks for a bump that main() lets through to bump_version.
IsBump(a) == Len(a) >= 3 /\ a[2] = "bump" /\ a[3] \in BumpTypes

\* The process of instance p ends with this status; its manager goes with it.
Exit(p, status) ==
  /\ pc' = [pc EXCEPT ![p] = "done"]
  /\ exit' = [exit EXCEPT ![p] = status]
  /\ mgr' = [mgr EXCEPT ![p] = NoMgr]

\* main() up to `manager = VersionManager()`. A return from main() ends the
\* process with status 0; the constructor is outside the try, so what it
\* raises ends the process with a traceback and status 1.
MainStart(p, a) ==
  /\ pc[p] \in {"idle", "done"}
  /\ IsBump(a) => nBumps < MaxBumps
  /\ nBumps' = IF IsBump(a) THEN nBumps + 1 ELSE nBumps
  /\ inv' = [inv EXCEPT ![p] = [argv |-> a, fs |-> fs]]
  /\ IF Len(a) < 2
     THEN /\ Exit(p, 0)
          /\ last' = [last EXCEPT ![p] = NoCall(fs)]
     ELSE LET r == ReadVersion(fs)
          IN  /\ last' = [last EXCEPT ![p] =
                            Called(p, "__init__", "", <<>>, OfRead(r))]
              /\ IF r.raised # ""
                 THEN Exit(p, 1)
                 ELSE /\ mgr' = [mgr EXCEPT ![p] = Mgr(r.version)]
                      /\ pc' = [pc EXCEPT ![p] = "dispatch"]
                      /\ exit' = [exit EXCEPT ![p] = -1]
  /\ UNCHANGED <<fs, ro, fs0, build>>

\* `except Exception as e: print(...); sys.exit(1)` of main(); without an
\* exception main() returns and the status is 0.
StatusOf(raised) == IF raised # "" THEN 1 ELSE 0

\* The try block of main() up to and including bump_version.
MainDispatch(p) ==
  /\ pc[p] = "dispatch"
  /\ LET a == inv[p].argv
         command == a[2]
         version == mgr[p].version
     IN  \/ /\ command = "update-all"
            /\ LET r == UpdateAllComponents(fs, version)
               IN  /\ fs' = r.fs
                   /\ last' = [last EXCEPT ![p] =
                                 Called(p, "update_all_components", "", version,
                                        OfUpdateAll(r))]
                   /\ Exit(p, StatusOf(r.raised))
         \/ /\ command = "bump"
            /\ IF Len(a) < 3 \/ ~IsBump(a)
               THEN /\ Exit(p, 0)
                    /\ UNCHANGED <<fs, last>>
               ELSE LET r == BumpVersion(fs, version, a[3])
                    IN  /\ fs' = r.fs
                        /\ last' = [last EXCEPT ![p] =
                                      Called(p, "bump_version", a[3], version,
                                             OfBump(r))]
                        /\ IF r.raised # ""
                           THEN Exit(p, 1)
                           ELSE /\ mgr' = [mgr EXCEPT ![p] = Mgr(r.version)]
                                /\ pc' = [pc EXCEPT ![p] = "propagate"]
                                /\ UNCHANGED exit
         \/ /\ command = "info"
            /\ Exit(p, 0)
            /\ UNCHANGED <<fs, last>>
         \/ /\ command = "create-header"
            /\ LET r == CreateVersionHeader(fs, version)
               IN  /\ fs' = r.fs
                   /\ last' = [last EXCEPT ![p] =
                                 Called(p, "version_header", "", version, OfUpdate(r))]
                   /\ Exit(p, StatusOf(r.raised))
         \/ /\ command \notin {"update-all", "bump", "info", "create-header"}
            /\ Exit(p, 0)
            /\ UNCHANGED <<fs, last>>
  /\ UNCHANGED <<ro, fs0, build, inv, nBumps>>

\* The rest of the bump command: manager.update_all_components().
MainPropagate(p) ==
  /\ pc[p] = "propagate"
  /\ LET r == UpdateAllComponents(fs, mgr[p].version)
     IN  /\ fs' = r.fs
         /\ last' = [last EXCEPT ![p] =
                       Called(p, "update_all_components", "", mgr[p].version,
                              OfUpdateAll(r))]
         /\ Exit(p, StatusOf(r.raised))
  /\ UNCHANGED <<ro, fs0, build, inv, nBumps>>

(* ----------------------------- project trees --------------------------- *)

Q(s) == <<DQ>> \o s \o <<DQ>>

V100 == <<"1", ".", "0", ".", "0">>
V099 == <<"0", ".", "9", ".", "9">>
V010 == <<"0", ".", "1", ".", "0">>

CargoText ==
  <<"[", "p", "]", NL>> \o kwVersion \o <<" ", "=", " ">> \o Q(V010) \o <<NL>>
\* An empty value, an indented (dependency) line, and a value over two lines.
CargoTricky ==
  kwVersion \o <<"=">> \o Q(<<>>) \o <<NL, " ">> \o kwVersion \o <<" ", "=", " ">>
  \o Q(<<"7">>) \o <<NL>> \o kwVersion \o <<NL, "=", NL>> \o Q(<<"x", NL>>)
CargoNoPattern == <<" ">> \o kwVersion \o <<"=">> \o Q(V100)

PackageText == <<"{">> \o PackageLit \o <<" ">> \o Q(V010) \o <<"}">>
PackageNoPattern == <<"{">> \o Q(kwVersion) \o <<" ", ":">> \o Q(V100) \o <<"}">>

TsText == kwReturn \o <<" ", SQ>> \o V100 \o <<SQ, ";">>
TsNoPattern == kwReturn \o <<" ", SQ, "1", "x", "0", ".", "0", SQ, ";">>

Tree(version, cargo, package, auto, backsvc, header) ==
  [f \in Files |->
     CASE f = VERSION -> version
       [] f = CARGO -> cargo
       [] f = PACKAGE -> package
       [] f = AUTOUPDATER -> auto
       [] f = BACKENDSERVICE -> backsvc
       [] f = HEADER -> header]

\* Every target present and carrying its version pattern.
GoodTree(version) ==
  Tree(version, File(CargoText), File(PackageText), File(TsText), File(TsText),
       Absent)

VersionFiles ==
  { Absent, File(V100), File(V099 \o <<NL>>), File(<<"1", ".", "0">>),
    File(<<"0", "1", ".", "2", ".", "3">>) }

NoPatternTree(version) ==
  Tree(version, File(CargoNoPattern), File(PackageNoPattern), File(TsNoPattern),
       File(TsNoPattern), File(<<"old">>))

AbsentTree(version) == Tree(version, Absent, Absent, Absent, Absent, Absent)

MixedTrees(version) ==
  { Tree(version, File(CargoTricky), File(PackageText), File(TsText), Absent,
         Absent),
    Tree(version, Absent, File(PackageNoPattern), File(TsNoPattern),
         File(TsText), Absent) }

\* The trees a behaviour starts from, each with the paths that cannot be
\* written: every VERSION content over a good tree, and over VERSION 1.0.0
\* every shape of target tree and of unwritable paths.
InitCases ==
  { <<GoodTree(v), {}>> : v \in VersionFiles }
  \cup { <<t, {}>> : t \in {NoPatternTree(File(V100)), AbsentTree(File(V100))}
                           \cup MixedTrees(File(V100)) }
  \cup { <<GoodTree(File(V100)), r>> :
           r \in { {VERSION}, {CARGO}, {PACKAGE, AUTOUPDATER}, {HEADER}, Files } }
  \cup { <<NoPatternTree(File(V099)), {HEADER}>> }

\* build_complete_package.py about to call main(): no step run, no command
\* run, no exit status (-1), the completion banner not printed.
BuildStart ==
  [pc |-> "check_prerequisites", steps |-> <<>>, cmds |-> <<>>, status |-> -1,
   completed |-> FALSE]

InitWith(tree, readonly) ==
  /\ fs = tree
  /\ ro = readonly
  /\ fs0 = tree
  /\ mgr = [p \in Procs |-> NoMgr]
  /\ pc = [p \in Procs |-> "idle"]
  /\ inv = [p \in Procs |-> [argv |-> <<>>, fs |-> tree]]
  /\ exit = [p \in Procs |-> -1]
  /\ last = [p \in Procs |-> NoCall(tree)]
  /\ nBumps = 0
  /\ build = BuildStart

(* ------------- one instance at a time: library calls and runs ---------- *)

Init == \E c \in InitCases : InitWith(c[1], c[2])

Next ==
  \/ New(1)
  \/ \E t \in BumpTypes \cup {"bogus"} : CallBump(1, t)
  \/ CallCreateHeader(1)
  \/ CallUpdateAll(1)
  \/ \E a \in Argv : MainStart(1, a)
  \/ MainDispatch(1)
  \/ MainPropagate(1)

Spec == Init /\ [][Next]_vars

(* ----------------------------- bump_version: C1, C2 -------------------- *)

\* Lexicographic order on (major, minor, patch).
Greater(u, t) ==
  \/ u[1] > t[1]
  \/ u[1] = t[1] /\ u[2] > t[2]
  \/ u[1] = t[1] /\ u[2] = t[2] /\ u[3] > t[3]

\* A version text in canonical form: three decimal numbers without leading
\* zeros, separated by dots.
Canonical(s) ==
  LET parts == Split(s)
  IN  /\ Len(parts) = 3
      /\ \A k \in 1..3 :
           /\ parts[k] # <<>>
           /\ \A j \in 1..Len(parts[k]) : parts[k][j] \in Digits
           /\ Len(parts[k]) > 1 => parts[k][1] # "0"

SuccessfulBump(p) == last[p].op = "bump_version" /\ last[p].raised = ""

\* C1: a successful bump of a.b.c returns (a+1).0.0 for major, a.(b+1).0 for
\* minor and a.b.(c+1) for patch, as a canonical version text strictly greater
\* than the version before; the VERSION file then holds exactly the returned
\* text and the manager's in-memory version equals it.
C1_BumpArithmeticAndPersistence ==
  \A p \in Procs :
    SuccessfulBump(p) =>
      LET t == Triple(last[p].pre)
          u == Triple(last[p].ret)
      IN  /\ last[p].arg = "major" => u = <<t[1] + 1, 0, 0>>
          /\ last[p].arg = "minor" => u = <<t[1], t[2] + 1, 0>>
          /\ last[p].arg = "patch" => u = <<t[1], t[2], t[3] + 1>>
          /\ Canonical(last[p].ret)
          /\ Greater(u, t)
          /\ fs[VERSION] = File(last[p].ret)
          /\ mgr[p].alive /\ mgr[p].version = last[p].ret

\* A second successive bump, with a carry into a new digit: 0.10.0 -> 0.11.0.
C1_Witness ==
  /\ SuccessfulBump(1)
  /\ last[1].arg = "minor"
  /\ last[1].pre = <<"0", ".", "1", "0", ".", "0">>
  /\ last[1].ret = <<"0", ".", "1", "1", ".", "0">>
  /\ nBumps = 2

\* C2: bump_version with a kind other than major, minor or patch raises an
\* error and leaves the VERSION file (the whole tree) and the manager's
\* in-memory version as they were before the call.
C2_InvalidKindChangesNothing ==
  \A p \in Procs :
    (last[p].op = "bump_version" /\ last[p].arg \notin BumpTypes) =>
      /\ last[p].raised = "ValueError"
      /\ fs = last[p].fsPre
      /\ mgr[p].alive /\ mgr[p].version = last[p].pre

\* bump_version("bogus") called on a manager whose version 01.2.3 differs from
\* its canonical form.
C2_Witness ==
  /\ last[1].op = "bump_version"
  /\ last[1].arg = "bogus"
  /\ last[1].raised = "ValueError"
  /\ last[1].pre = <<"0", "1", ".", "2", ".", "3">>

(* ----------------------------- update_all_components: C4, C5 ----------- *)

\* C4: update_all_components attempts backend, frontend_package, typescript
\* and version_header, each once and in that order, whatever each one's
\* outcome, raises nothing and returns one boolean per target.
C4_AllTargetsAttemptedInOrder ==
  \A p \in Procs :
    last[p].op = "update_all_components" =>
      /\ last[p].raised = ""
      /\ last[p].log = Components
      /\ Len(last[p].results) = Len(Components)
      /\ \A k \in 1..Len(Components) :
           /\ last[p].results[k].key = Components[k]
           /\ last[p].results[k].val \in BOOLEAN

\* The first target fails on an I/O error (Cargo.toml carries the pattern but
\* cannot be written) and the later targets are still updated.
C4_Witness ==
  /\ last[1].op = "update_all_components"
  /\ CARGO \in ro
  /\ Search("cargo", fs[CARGO].text)
  /\ Len(last[1].results) = 4
  /\ ~last[1].results[1].val
  /\ last[1].results[2].val
  /\ last[1].results[4].val

\* The text lit occurs in s.
Contains(s, lit) == \E i \in 1..Len(s) : Lit(s, i, lit)

\* The dependent files of the tree all carry the version text v.
Mirrors(tree, v) ==
  /\ Contains(tree[CARGO].text, NewLine("cargo", v))
  /\ Contains(tree[PACKAGE].text, NewLine("package", v))
  /\ Contains(tree[AUTOUPDATER].text, NewLine("ts", v))
  /\ Contains(tree[BACKENDSERVICE].text, NewLine("ts", v))
  /\ tree[HEADER] = File(HeaderContent(v))

\* C5: on a tree whose targets all exist and initially carry their version
\* pattern (and can all be written), once update_all_components has returned
\* every dependent file carries the canonical version.
C5_DependentsMirrorCanonical ==
  \A p \in Procs :
    (/\ last[p].op = "update_all_components"
     /\ ro = {}
     /\ fs0 = GoodTree(fs0[VERSION])) =>
      Mirrors(fs, Strip(fs[VERSION].text))

(* ----------------------------- I/O failures: C7 ------------------------ *)

\* C7: an I/O failure during a write is never raised out of the operation
\* that performs the write.
C7_WriteErrorsAreCaught == \A p \in Procs : last[p].raised # "OSError"

(* ----------------------------- the command line: C8 -------------------- *)

\* argv names no command main() knows, or the bump command without a valid
\* kind.
Malformed(a) ==
  /\ Len(a) >= 2
  /\ \/ a[2] \notin {"update-all", "bump", "info", "create-header"}
     \/ a[2] = "bump" /\ ~IsBump(a)

\* C8: a run with an unrecognized command, or with bump and a missing or
\* invalid kind, changes no file and ends with a non-zero exit status.
C8_MalformedInvocationFails ==
  \A p \in Procs :
    (pc[p] = "done" /\ Malformed(inv[p].argv)) =>
      /\ fs = inv[p].fs
      /\ exit[p] # 0

(* ----------------------------- reading VERSION: C3 -------------------- *)

V101 == <<"1", ".", "0", ".", "1">>

ReadAlphabet == {"1", ".", "v", " "}

\* Every text over ReadAlphabet of at most n characters.
Texts(n) == UNION {[1..k -> ReadAlphabet] : k \in 0..n}

ReadExamples ==
  { <<"1", ".", "0">>, <<"v">> \o V100, V100 \o <<"-", "b", "e", "t", "a">>,
    <<"0", "1", ".", "2", ".", "3">>, <<" ", NL>> \o V099 \o <<NL, NL>>,
    V100 \o <<NL>> \o V100, <<"1", "0", ".", "2", "0", ".", "3", "0", NL>> }

InitRead ==
  \/ InitWith(GoodTree(Absent), {})
  \/ \E t \in Texts(MaxLen) \cup ReadExamples : InitWith(GoodTree(File(t)), {})

NextRead ==
  \/ New(1)
  \/ CallUpdateAll(1)
  \/ \E a \in {<<Prog, "update-all">>, <<Prog, "info">>} : MainStart(1, a)
  \/ MainDispatch(1)

\* VERSION of any content; the manager constructed by a caller or by main().
SpecRead == InitRead /\ [][NextRead]_vars

\* s is digits '.' digits '.' digits, each run of digits non-empty.
TripleText(s) ==
  LET parts == Split(s)
  IN  /\ Len(parts) = 3
      /\ \A k \in 1..3 :
           /\ parts[k] # <<>>
           /\ \A j \in 1..Len(parts[k]) : parts[k][j] \in Digits

\* text is whitespace, then a triple text at a..b, then whitespace.
Core(text, a, b) ==
  /\ \A i \in 1..Len(text) : (i < a \/ i > b) => text[i] \in WS
  /\ TripleText(SubSeq(text, a, b))

HasCore(text) == \E a, b \in 1..Len(text) : Core(text, a, b)

\* C3: reading the canonical version succeeds exactly when VERSION exists and
\* its content, apart from surrounding whitespace, is a triple text, and then
\* yields that text; an absent file raises FileNotFoundError and any other
\* content ValueError, and then no manager exists, the tree is as it was and
\* a command-line run has ended with status 1.
C3_ReadVersionStrict ==
  \A p \in Procs :
    last[p].op = "__init__" =>
      LET f == last[p].fsPre[VERSION]
      IN  /\ (last[p].raised = "") <=> (f.exists /\ HasCore(f.text))
          /\ last[p].raised = "" =>
               \E a, b \in 1..Len(f.text) :
                 Core(f.text, a, b) /\ last[p].ret = SubSeq(f.text, a, b)
          /\ ~f.exists => last[p].raised = "FileNotFoundError"
          /\ (f.exists /\ ~HasCore(f.text)) => last[p].raised = "ValueError"
          /\ last[p].raised # "" =>
               /\ ~mgr[p].alive
               /\ fs = fs0
               /\ pc[p] \in {"idle", "done"}
               /\ pc[p] = "done" => exit[p] = 1

\* A version read from a file that surrounds it with whitespace.
C3_Witness ==
  /\ last[1].op = "__init__"
  /\ last[1].raised = ""
  /\ last[1].fsPre[VERSION].text = <<" ", NL>> \o V099 \o <<NL, NL>>
  /\ last[1].ret = V099

(* ----------------------------- single targets: C6, C9 ------------------ *)

\* Pieces of text that target files are put together from.
CargoChunks ==
  { kwVersion \o <<"=", DQ>>, kwVersion, <<"=">>, <<DQ>>, <<NL>>, <<"x">> }
PackageChunks ==
  { PackageLit \o <<DQ>>, PackageLit, Q(kwVersion), <<DQ>>, <<" ">>, <<"x">> }
TsChunks ==
  { TsLit, kwReturn \o <<" ", SQ>>, V100, <<SQ>>,
    kwReturn \o <<" ", SQ, "1", "x", "0", ".", "0", SQ>>, <<";">> }

RECURSIVE Concat(_)
Concat(ss) == IF ss = <<>> THEN <<>> ELSE Head(ss) \o Concat(Tail(ss))

\* Every text made of at most n of the chunks.
ChunkTexts(chunks, n) == UNION {{Concat(c) : c \in [1..k -> chunks]} : k \in 0..n}

PropagateTrees ==
  { Tree(File(V101), File(t), Absent, Absent, Absent, Absent) :
      t \in ChunkTexts(CargoChunks, MaxChunks) }
  \cup { Tree(File(V101), Absent, File(t), Absent, Absent, Absent) :
           t \in ChunkTexts(PackageChunks, MaxChunks) }
  \cup { Tree(File(v), Absent, Absent, File(t), b, Absent) :
           v \in {V100, V101}, t \in ChunkTexts(TsChunks, MaxChunks),
           b \in {Absent, File(TsText)} }

InitPropagate ==
  \/ \E c \in InitCases : InitWith(c[1], c[2])
  \/ \E t \in PropagateTrees : InitWith(t, {})

NextPropagate ==
  \/ New(1)
  \/ CallUpdateBackend(1)
  \/ CallUpdateFrontend(1)
  \/ CallUpdateTypescript(1)

\* The propagate operations called one at a time on target files of any
\* content.
SpecPropagate == InitPropagate /\ [][NextPropagate]_vars

\* The target of the operation was missing, or held no match for its pattern.
Lacking(op, tree) ==
  LET lacks(kind, path) == ~tree[path].exists \/ ~Search(kind, tree[path].text)
  IN  CASE op = "backend" -> lacks("cargo", CARGO)
        [] op = "frontend_package" -> lacks("package", PACKAGE)
        [] op = "typescript" ->
             lacks("ts", AUTOUPDATER) /\ lacks("ts", BACKENDSERVICE)

TargetOps == {"backend", "frontend_package", "typescript"}

\* C6: a propagate operation whose target file is missing, or present without
\* a match for its pattern, returns failure and leaves the tree as it was: no
\* file created, no file changed.
C6_FailureLeavesTreeUnchanged ==
  \A p \in Procs :
    (last[p].op \in TargetOps /\ Lacking(last[p].op, last[p].fsPre)) =>
      /\ last[p].raised = ""
      /\ ~last[p].ok
      /\ fs = last[p].fsPre

\* update_backend_version on a writable Cargo.toml that has text but no
\* version line.
C6_Witness ==
  /\ last[1].op = "backend"
  /\ ~last[1].ok
  /\ CARGO \notin ro
  /\ last[1].fsPre[CARGO].exists
  /\ last[1].fsPre[CARGO].text # <<>>
  /\ ~Search("cargo", last[1].fsPre[CARGO].text)

\* C9: a propagate operation applied a second time in succession, under the
\* same version, leaves every file as the first application left it.
C9_PropagateIdempotent ==
  \A p \in Procs :
    (last[p].op \in TargetOps /\ last[p].rep = 2) => fs = last[p].fsPre

\* update_typescript_version twice under a version other than 1.0.0: the
\* first call rewrote a file, the second finds no match and changes nothing.
C9_Witness ==
  /\ last[1].op = "typescript"
  /\ last[1].rep = 2
  /\ ~last[1].ok
  /\ last[1].pre = V101
  /\ last[1].fsPre # fs0

(* ----------------------------- two instances: C10 ---------------------- *)

InitConc == \E v \in {V100, V099 \o <<NL>>} : InitWith(GoodTree(File(v)), {})

NextConc ==
  \E p \in Procs :
    \/ \E t \in BumpTypes : MainStart(p, <<Prog, "bump", t>>)
    \/ MainDispatch(p)
    \/ MainPropagate(p)

\* Two instances of the tool, each running bump commands, on one tree.
SpecConc == InitConc /\ [][NextConc]_vars

\* One increment of the component named by kind.
Increment(t, kind) ==
  CASE kind = "major" -> <<t[1] + 1, 0, 0>>
    [] kind = "minor" -> <<t[1], t[2] + 1, 0>>
    [] kind = "patch" -> <<t[1], t[2], t[3] + 1>>

\* Both instances have completed a bump of the same kind, each having read
\* the same VERSION content at its start.
BothBumpedFromSame ==
  /\ \A p \in Procs : pc[p] = "done" /\ exit[p] = 0 /\ IsBump(inv[p].argv)
  /\ inv[1].argv = inv[2].argv
  /\ inv[1].fs[VERSION] = inv[2].fs[VERSION]

\* C10: when two instances have each completed a bump of the same kind after
\* reading the same canonical version, the VERSION file is one increment
\* ahead of that version, not two: one of the updates is lost.
C10_LostUpdate ==
  BothBumpedFromSame =>
    LET start == Triple(Strip(inv[1].fs[VERSION].text))
        kind == inv[1].argv[3]
    IN  /\ Triple(fs[VERSION].text) = Increment(start, kind)
        /\ Triple(fs[VERSION].text) # Increment(Increment(start, kind), kind)

\* Both instances ran `bump patch` from 1.0.0 and the file ends at 1.0.1.
C10_Witness ==
  /\ BothBumpedFromSame
  /\ inv[1].argv = <<Prog, "bump", "patch">>
  /\ inv[1].fs[VERSION] = File(V100)
  /\ fs[VERSION] = File(V101)
  /\ nBumps = 2

(***************************************************************************)
(* build_complete_package.py: the build pipeline.                          *)
(*                                                                         *)
(* The run is the record `build`: pc is the step main is about to call,    *)
(* steps logs every step called with what it gave back ("True", "False",   *)
(* or "raised" for an exception that leaves it), cmds logs every shell     *)
(* command run with its exit status, status is the exit status of the      *)
(* process (-1 while it runs) and completed tells that the 'Build          *)
(* completed successfully' banner was printed.  The outside world (what    *)
(* the tools answer, what is on disk) is an input of each step.            *)
(***************************************************************************)

\* Exit statuses of a shell command: success, failure, command not found.
ExitCodes == {0, 1, 127}

Results == {"True", "False", "raised"}

\* run_command: subprocess.run raises CalledProcessError only when check is
\* set and the status is not 0; run_command gives False exactly then.
RunCommand(check, code) == ~(check /\ code # 0)

\* The commands of a step, each under "if not run_command(..): return False":
\* they run in order up to the first one run_command reports as failed.
RECURSIVE RunEach(_, _, _)
RunEach(commands, codes, check) ==
  IF commands = <<>> THEN [cmds |-> <<>>, ok |-> TRUE]
  ELSE LET first == [cmd |-> Head(commands), code |-> Head(codes)]
       IN  IF RunCommand(check, Head(codes))
           THEN LET rest == RunEach(Tail(commands), Tail(codes), check)
                IN  [cmds |-> <<first>> \o rest.cmds, ok |-> rest.ok]
           ELSE [cmds |-> <<first>>, ok |-> FALSE]

Returns(ok) == IF ok THEN "True" ELSE "False"

Probes == <<"rustc --version", "node --version", "npm --version">>

\* check_prerequisites: the three probes, each run with check=False.
CheckPrerequisites(codes) ==
  LET r == RunEach(Probes, codes, FALSE)
  IN  [cmds |-> r.cmds, result |-> Returns(r.ok)]

\* build_backend: the directory, cargo, then the binary it should have left.
BuildBackend(backend_dir, code, binary) ==
  IF ~backend_dir THEN [cmds |-> <<>>, result |-> "False"]
  ELSE LET r == RunEach(<<"cargo build --release">>, <<code>>, TRUE)
       IN  [cmds |-> r.cmds, result |-> Returns(r.ok /\ binary)]

\* build_frontend: the directory, npm install, npm run build, then build/.
BuildFrontend(frontend_dir, codes, build_dir) ==
  IF ~frontend_dir THEN [cmds |-> <<>>, result |-> "False"]
  ELSE LET r == RunEach(<<"npm install", "npm run build">>, codes, TRUE)
       IN  [cmds |-> r.cmds, result |-> Returns(r.ok /\ build_dir)]

Win   == "npx electron-builder --win --publish=never"
Linux == "npx electron-builder --linux --publish=never"
Mac   == "npx electron-builder --mac --publish=never"

Platforms == <<Win, Linux, Mac>>

\* build_electron_package: Windows, then Linux, then macOS.
BuildElectronPackage(codes) ==
  LET r == RunEach(Platforms, codes, TRUE)
  IN  [cmds |-> r.cmds, result |-> Returns(r.ok)]

\* Where create_standalone_package can raise (OSError from shutil, mkdir or
\* open), in the order the code reaches them; "none" when nothing raises.
Raises == {"none", "mkdir", "copy2", "copytree", "write"}

\* create_standalone_package: the package directory, the backend binary, the
\* frontend build, electron.js, then package.json, start.sh and README.md.
\* It gives False at the first input it misses and lets an OSError out.
CreateStandalonePackage(binary, frontend_build, electron_main, raises) ==
  [cmds |-> <<>>,
   result |->
     IF raises = "mkdir" THEN "raised"
     ELSE IF ~binary THEN "False"
     ELSE IF raises = "copy2" THEN "raised"
     ELSE IF ~frontend_build THEN "False"
     ELSE IF raises = "copytree" THEN "raised"
     ELSE IF ~electron_main THEN "False"
     ELSE IF raises = "write" THEN "raised"
     ELSE "True"]

\* The steps of main in the order it calls them.
Pipeline ==
  <<"check_prerequisites", "build_backend", "build_frontend",
    "build_electron_package", "create_standalone_package">>

Position(name) == CHOOSE i \in DOMAIN Pipeline : Pipeline[i] = name

\* What main goes to after a step that gave True.
After(name) ==
  IF Position(name) < Len(Pipeline) THEN Pipeline[Position(name) + 1]
  ELSE "completed"

\* main that would go on to the next step whatever the step gave back.
MainStepNoExit(b, name, r) ==
  [b EXCEPT !.steps = Append(@, [name |-> name, result |-> r.result]),
            !.cmds = @ \o r.cmds,
            !.pc = After(name)]

\* main around one step: "if not step(): sys.exit(1)".  A step that raises
\* ends the process with a traceback, and the interpreter exits 1 as well.
MainStep(b, name, r) ==
  [b EXCEPT !.steps = Append(@, [name |-> name, result |-> r.result]),
            !.cmds = @ \o r.cmds,
            !.pc = IF r.result = "True" THEN After(name) ELSE "exited",
            !.status = IF r.result = "True" THEN @ ELSE 1]

versionVars == <<fs, ro, fs0, mgr, pc, inv, exit, last, nBumps>>

StepCheckPrerequisites ==
  /\ build.pc = "check_prerequisites"
  /\ \E codes \in ExitCodes \X ExitCodes \X ExitCodes :
       build' = MainStep(build, "check_prerequisites", CheckPrerequisites(codes))
  /\ UNCHANGED versionVars

StepBuildBackend ==
  /\ build.pc = "build_backend"
  /\ \E backend_dir \in BOOLEAN, code \in ExitCodes, binary \in BOOLEAN :
       build' = MainStep(build, "build_backend",
                         BuildBackend(backend_dir, code, binary))
  /\ UNCHANGED versionVars

StepBuildFrontend ==
  /\ build.pc = "build_frontend"
  /\ \E frontend_dir \in BOOLEAN, codes \in ExitCodes \X ExitCodes,
        build_dir \in BOOLEAN :
       build' = MainStep(build, "build_frontend",
                         BuildFrontend(frontend_dir, codes, build_dir))
  /\ UNCHANGED versionVars

StepBuildElectronPackage ==
  /\ build.pc = "build_electron_package"
  /\ \E codes \in ExitCodes \X ExitCodes \X ExitCodes :
       build' = MainStep(build, "build_electron_package",
                         BuildElectronPackage(codes))
  /\ UNCHANGED versionVars

StepCreateStandalonePackage ==
  /\ build.pc = "create_standalone_package"
  /\ \E binary \in BOOLEAN, frontend_build \in BOOLEAN,
        electron_main \in BOOLEAN, raises \in Raises :
       build' = MainStep(build, "create_standalone_package",
                         CreateStandalonePackage(binary, frontend_build,
                                                 electron_main, raises))
  /\ UNCHANGED versionVars

\* The end of main: the banner, return True, and sys.exit(0).
BuildCompleted ==
  /\ build.pc = "completed"
  /\ build' = [build EXCEPT !.completed = TRUE, !.status = 0, !.pc = "exited"]
  /\ UNCHANGED versionVars

InitBuild == InitWith(GoodTree(File(V100)), {})

NextBuild ==
  \/ StepCheckPrerequisites
  \/ StepBuildBackend
  \/ StepBuildFrontend
  \/ StepBuildElectronPackage
  \/ StepCreateStandalonePackage
  \/ BuildCompleted

SpecBuild == InitBuild /\ [][NextBuild]_vars

(***************************************************************************)
(* C11                                                                     *)
(***************************************************************************)

Gave(i, result) == build.steps[i].result = result

\* The commands of build_electron_package among those run so far.
RECURSIVE Electron(_)
Electron(cmds) ==
  IF cmds = <<>> THEN <<>>
  ELSE IF Head(cmds).cmd \in {Win, Linux, Mac}
       THEN <<Head(cmds)>> \o Electron(Tail(cmds))
       ELSE Electron(Tail(cmds))

\* C11: the steps called so far are an initial part of check_prerequisites,
\* build_backend, build_frontend, build_electron_package,
\* create_standalone_package, in that order; every step but the latest gave
\* True, so a step runs only after all earlier ones succeeded; a latest step
\* that did not give True has ended the process with exit status 1, and
\* nothing ran after it; the Electron builds run as Windows, then Linux, then
\* macOS, a later one only after the earlier one exited 0; and the 'Build
\* completed successfully' outcome, the only one with exit status 0, is
\* reached only with all five steps having given True.
C11_PipelineOrderedFailFast ==
  LET n == Len(build.steps)
      e == Electron(build.cmds)
  IN  /\ n <= Len(Pipeline)
      /\ \A i \in 1..n : build.steps[i].name = Pipeline[i]
      /\ \A i \in 1..n : i < n => Gave(i, "True")
      /\ (n > 0 /\ ~Gave(n, "True"))
           => build.pc = "exited" /\ build.status = 1 /\ ~build.completed
      /\ (n > 0 /\ Gave(n, "True")) => build.pc \in {After(Pipeline[n]), "exited"}
      /\ n = 0 => build.pc = Pipeline[1]
      /\ Len(e) <= Len(Platforms)
      /\ \A i \in 1..Len(e) :
           /\ e[i].cmd = Platforms[i]
           /\ i < Len(e) => e[i].code = 0
      /\ e # <<>> => n >= Position("build_electron_package")
      /\ build.completed
           => /\ n = Len(Pipeline)
              /\ \A i \in 1..n : Gave(i, "True")
              /\ build.status = 0
      /\ build.status = 0 => build.completed
      /\ build.pc = "exited" <=> build.status # -1

\* The macOS build failed after the Windows and Linux builds succeeded: the
\* process has exited 1 from the fourth step and never packaged.
C11_Witness ==
  LET e == Electron(build.cmds)
  IN  /\ build.pc = "exited"
      /\ build.status = 1
      /\ Len(build.steps) = Position("build_electron_package")
      /\ Gave(Len(build.steps), "False")
      /\ Len(e) = Len(Platforms)
      /\ e[Len(e)].cmd = Mac
      /\ e[Len(e)].code # 0

(***************************************************************************)
(* C12                                                                     *)
(***************************************************************************)

\* Some version probe run so far exited with a status other than 0.
ProbeFailed ==
  \E i \in 1..Len(build.cmds) :
    /\ build.cmds[i].cmd \in {Probes[j] : j \in DOMAIN Probes}
    /\ build.cmds[i].code # 0

\* C12: once check_prerequisites has been called, it gave True exactly when
\* no probe of rustc, node or npm exited with a non-zero status, and after a
\* probe that did, the process has exited with a non-zero status with
\* check_prerequisites as the only step called.
C12_MissingToolStopsBuild ==
  Len(build.steps) > 0 =>
    /\ Gave(1, "True") <=> ~ProbeFailed
    /\ ProbeFailed =>
         /\ Gave(1, "False")
         /\ Len(build.steps) = 1
         /\ build.pc = "exited"
         /\ build.status > 0

====
